---------------------------- MODULE Spec2Model ----------------------------
(***************************************************************************)
(* Phase sequencer and cue scheduler of the Aura breathing application.    *)
(*                                                                         *)
(* The application logic with the cue scheduler is the closure that starts *)
(* at src/sw.js:52; the cue engine it calls is the CueEngine class of      *)
(* src/README.md:366-448.  The host is a single threaded event loop: every *)
(* action below is one complete turn of it (a user event handler, a timer  *)
(* callback) or a step of the environment (the clock, the audio platform). *)
(*                                                                         *)
(* Time is counted in whole seconds.  setTimeout and setInterval callbacks *)
(* run at the instant they are due; callbacks due at the same instant run  *)
(* in either order.  User events happen between turns, at any instant the  *)
(* clock reaches.                                                          *)
(*                                                                         *)
(* The legacy variant without the cue scheduler (src/app.js, with the      *)
(* AudioEngine class of src/README.md:194-353) is modelled on the same     *)
(* variables, with its own actions and specification.                      *)
(***************************************************************************)
EXTENDS Integers, Sequences, FiniteSets, TLC

(***************************************************************************)
(* Bounds of the model.                                                    *)
(***************************************************************************)
\* the clock is not advanced beyond this instant
MaxTime == 20
\* number of user events (taps, settings edits, modal closes) in one run
MaxGestures == 3
\* the same for the runs that reach the session bound
MaxSessionTime == 62
MaxSessionGestures == 2
\* user events in a session that is left alone
MaxAloneGestures == 1
\* seconds and user events in a run of the legacy variant
MaxLegacyTime == 20
MaxLegacyGestures == 3
\* number of user events in the runs in which the clock stands still
MaxSettingsGestures == 3
\* the same for the runs in which the session bound is set after it has passed
MaxLateTime == 64
MaxLateGestures == 2

(***************************************************************************)
(* Values of the program.                                                  *)
(***************************************************************************)
\* null of a timer handle; the handles of setTimeout/setInterval are > 0
Null == 0
\* durations[i] for an index outside the array
Undefined == -1

DefaultThree == <<4, 7, 8>>
DefaultFour == <<4, 4, 4, 4>>

\* texts the user may type into a number field, as sequences of characters
Digits == {"0", "1", "2", "3", "4", "5", "6", "7", "8", "9"}
DigitValue(c) == CASE c = "0" -> 0 [] c = "1" -> 1 [] c = "2" -> 2 [] c = "3" -> 3
                   [] c = "4" -> 4 [] c = "5" -> 5 [] c = "6" -> 6 [] c = "7" -> 7
                   [] c = "8" -> 8 [] c = "9" -> 9

\* the result of parseInt: not a number, or an integer
NaN == [nan |-> TRUE, n |-> 0]
Num(k) == [nan |-> FALSE, n |-> k]

RECURSIVE LeadingDigits(_, _)
\* the value of the longest prefix of digits of txt, continuing from acc
LeadingDigits(txt, acc) ==
    IF txt = <<>> \/ Head(txt) \notin Digits THEN acc
    ELSE LeadingDigits(Tail(txt), 10 * acc + DigitValue(Head(txt)))

\* parseInt(txt, 10): optional sign, then the leading digits; NaN without one
ParseInt(txt) ==
    LET signed == txt # <<>> /\ Head(txt) \in {"-", "+"}
        body == IF signed THEN Tail(txt) ELSE txt
        neg == signed /\ Head(txt) = "-"
    IN IF body = <<>> \/ Head(body) \notin Digits THEN NaN
       ELSE Num(IF neg THEN 0 - LeadingDigits(body, 0) ELSE LeadingDigits(body, 0))

\* what is typed into a duration field
DurationTexts == {<<>>, <<"0">>, <<"2">>, <<"3", "1">>}
\* the data-duration attributes of the practice buttons
PracticeButtons == {<<"6", "0">>, <<"0">>, <<"c", "u", "s", "t", "o", "m">>}
CustomText == <<"c", "u", "s", "t", "o", "m">>
\* what is typed into the custom duration field (minutes)
MinuteTexts == {<<>>, <<"1">>, <<"-", "1">>}

\* what the volume slider may hold (percent); the range of the slider is set
\* by the page's markup, which is not part of the source
SliderTexts == {<<"0">>, <<"5", "0">>, <<"1", "0", "0">>, <<"1", "5", "0">>, <<"-", "2", "0">>}
\* masterGain = null: the engine has no gain node yet
NoGain == [exists |-> FALSE, gain |-> 0]
\* the scale of the circle, in tenths
SCALE_INHALE == 13
SCALE_EXHALE == 10

VARIABLES
    \* state of the application closure (src/sw.js:75-90)
    mode, durations, practiceDuration, isRunning, phaseIndex, timeoutId,
    sessionStart, cuesEnabled, cueMode, cueVolume, muteHold, metronomeInterval,
    \* the custom duration field of the settings panel
    customDurationInput,
    \* state of the cue engine (src/README.md:367-370): its volume and the
    \* gain of its master gain node, both in hundredths
    volume, masterGain,
    \* the circle and the phase label, as the handlers leave them
    render,
    \* the host: the clock, the table of armed timers, the audio platform
    now, timers, audioCtx,
    \* the last turn: its kind and the calls it made to the renderer, the
    \* engine and the host, in order
    turn, out,
    \* the phases entered since the last entry of phase 0, each with the cue
    \* calls made during it
    cycleLog,
    \* user events so far, and the bounds of the run
    gestures, limits

vars == <<mode, durations, practiceDuration, isRunning, phaseIndex, timeoutId,
          sessionStart, cuesEnabled, cueMode, cueVolume, muteHold,
          metronomeInterval, customDurationInput, volume, masterGain,
          render, now, timers, audioCtx,
          turn, out, cycleLog, gestures, limits>>

(***************************************************************************)
(* The handlers are sequential code.  Each function of the source is an    *)
(* operator from the state before the call to the state after it; a state  *)
(* is the record of all variables plus `thrown`, which is TRUE once an     *)
(* exception has left the function, and what the turn finds in the audio   *)
(* platform: whether the engine's calls fault and whether the context      *)
(* reads 'suspended'.                                                      *)
(***************************************************************************)
Cur == [mode |-> mode, durations |-> durations,
        practiceDuration |-> practiceDuration, isRunning |-> isRunning,
        phaseIndex |-> phaseIndex, timeoutId |-> timeoutId,
        sessionStart |-> sessionStart, cuesEnabled |-> cuesEnabled,
        cueMode |-> cueMode, cueVolume |-> cueVolume, muteHold |-> muteHold,
        metronomeInterval |-> metronomeInterval,
        volume |-> volume, masterGain |-> masterGain,
        customDurationInput |-> customDurationInput, render |-> render,
        now |-> now, timers |-> timers, audioCtx |-> audioCtx,
        out |-> <<>>, cycleLog |-> cycleLog, thrown |-> FALSE,
        backendFault |-> FALSE, ctxSuspended |-> FALSE]

\* the state a turn starts in, with what it finds in the audio platform
CurIn(env) == [Cur EXCEPT !.backendFault = env.fault, !.ctxSuspended = env.suspended]
AudioEnvs == [fault : BOOLEAN, suspended : BOOLEAN]

Commit(s) ==
    /\ mode' = s.mode
    /\ durations' = s.durations
    /\ practiceDuration' = s.practiceDuration
    /\ isRunning' = s.isRunning
    /\ phaseIndex' = s.phaseIndex
    /\ timeoutId' = s.timeoutId
    /\ sessionStart' = s.sessionStart
    /\ cuesEnabled' = s.cuesEnabled
    /\ cueMode' = s.cueMode
    /\ cueVolume' = s.cueVolume
    /\ volume' = s.volume
    /\ masterGain' = s.masterGain
    /\ muteHold' = s.muteHold
    /\ metronomeInterval' = s.metronomeInterval
    /\ customDurationInput' = s.customDurationInput
    /\ render' = s.render
    /\ timers' = s.timers
    /\ audioCtx' = s.audioCtx
    /\ out' = IF s.thrown THEN Append(s.out, [call |-> "throw", phase |-> "", accent |-> FALSE])
              ELSE s.out
    /\ cycleLog' = s.cycleLog
    /\ UNCHANGED <<now, limits>>

\* one call made to the renderer, the engine or the host
Call(name, phase, accent) == [call |-> name, phase |-> phase, accent |-> accent]
Emit(s, name) == [s EXCEPT !.out = Append(@, Call(name, "", FALSE))]

(***************************************************************************)
(* The host's timers.                                                      *)
(***************************************************************************)
\* the handle of a new timer: one that no armed timer has and that differs
\* from `held`, the handle the program keeps in its other handle variable
FreshId(ts, held) ==
    LET used == {t.id : t \in ts} \cup {held}
    IN CHOOSE i \in 1..(Cardinality(used) + 1) :
          i \notin used /\ \A j \in 1..(i - 1) : j \in used

\* clearTimeout(id) and clearInterval(id): both remove the timer with that
\* handle, of either kind; an unknown handle or null removes nothing
ClearTimer(s, id) == [s EXCEPT !.timers = {t \in @ : t.id # id}]

TimeoutRec(id, due) ==
    [id |-> id, kind |-> "timeout", due |-> due, phaseKey |-> "",
     durationSec |-> 0, elapsedBeats |-> 0]
\* an interval carries the variables its callback closes over
IntervalRec(id, due, phaseKey, durationSec, elapsedBeats) ==
    [id |-> id, kind |-> "interval", due |-> due, phaseKey |-> phaseKey,
     durationSec |-> durationSec, elapsedBeats |-> elapsedBeats]

PhaseTimers(ts) == {t \in ts : t.kind = "timeout"}
MetronomeIntervals(ts) == {t \in ts : t.kind = "interval"}
(***************************************************************************)
(* The cue engine (src/README.md:366-448), as far as the scheduler sees    *)
(* it: the audio context it creates lazily, and whether a call returns.    *)
(***************************************************************************)
\* the record of one phase entry in cycleLog; nth counts the phase entries of
\* the session
PhaseEntry(s, name, key, dur) ==
    [index |-> s.phaseIndex, name |-> name, key |-> key, dur |-> dur,
     at |-> s.now, elapsed |-> s.now - s.sessionStart,
     bound |-> s.practiceDuration, cueMode |-> s.cueMode,
     cues |-> s.cuesEnabled, muteHold |-> s.muteHold,
     muted |-> (key = "hold" /\ s.muteHold),
     calls |-> <<>>, mutedTicks |-> 0,
     nth |-> IF s.cycleLog = <<>> THEN 1 ELSE s.cycleLog[Len(s.cycleLog)].nth + 1]

\* note a cue call in the record of the phase that is active
LogCue(log, phase, isFirst) ==
    IF log = <<>> THEN log
    ELSE [log EXCEPT ![Len(log)].calls = Append(@, [phase |-> phase, accent |-> isFirst])]

\* note a tick that hold muting silenced
LogMutedTick(log) ==
    IF log = <<>> THEN log
    ELSE [log EXCEPT ![Len(log)].mutedTicks = @ + 1]

\* init(): creates the context on first use; the constructor throws where
\* the platform gives none
EngineInit(s) ==
    IF s.audioCtx # "null" THEN s
    ELSE IF s.backendFault THEN [s EXCEPT !.thrown = TRUE]
    ELSE [s EXCEPT !.audioCtx = "created",
                   !.masterGain = [exists |-> TRUE, gain |-> s.volume]]

\* playCue(phase, isFirst): throws when the backend faults, else starts a tone
PlayCue(s, phase, isFirst) ==
    LET s1 == [s EXCEPT !.out = Append(@, Call("playCue", phase, isFirst)),
                        !.cycleLog = LogCue(@, phase, isFirst)]
        s2 == EngineInit(s1)
    IN IF s2.thrown THEN s2
       ELSE IF s2.backendFault THEN [s2 EXCEPT !.thrown = TRUE]
       ELSE s2

\* if (audioCtx && audioCtx.state === 'suspended') audioCtx.resume();
ResumeIfSuspended(s) ==
    IF s.audioCtx # "null" /\ s.ctxSuspended THEN Emit(s, "resume") ELSE s

(***************************************************************************)
(* The application (src/sw.js:198-332).                                    *)
(***************************************************************************)
StopMetronomeSkipped(s) == s

\* if (metronomeInterval) { clearInterval(metronomeInterval); ... = null; }
StopMetronome(s) ==
    IF s.metronomeInterval # Null
    THEN [ClearTimer(s, s.metronomeInterval) EXCEPT !.metronomeInterval = Null]
    ELSE s

StopBreathingNoRender(s) ==
    LET s1 == [s EXCEPT !.isRunning = FALSE]
        s2 == [ClearTimer(s1, s1.timeoutId) EXCEPT !.timeoutId = Null]
    IN StopMetronome(s2)
\* stopBreathing()
StopBreathing(s) ==
    LET s1 == [s EXCEPT !.isRunning = FALSE]
        s2 == [ClearTimer(s1, s1.timeoutId) EXCEPT !.timeoutId = Null]
        s3 == StopMetronome(s2)
    IN [s3 EXCEPT !.render = [phaseText |-> "Start", scale |-> SCALE_EXHALE,
                              pulse |-> FALSE, transitionMs |-> 300],
                  !.out = Append(@, Call("renderIdle", "", FALSE))]

ClearPreviousIntervalSkipped(s) == s

\* "Clear any previous interval"
ClearPreviousInterval(s) ==
    IF s.metronomeInterval # Null
    THEN [ClearTimer(s, s.metronomeInterval) EXCEPT !.metronomeInterval = Null]
    ELSE s

SilentIgnoringMute(s, phaseKey) == ~s.cuesEnabled
SilentOnlyMutedHold(s, phaseKey) == phaseKey = "hold" /\ s.muteHold

\* "If cues disabled or hold muted, skip entirely"
Silent(s, phaseKey) ==
    LET isHold == phaseKey = "hold"
    IN ~s.cuesEnabled \/ (isHold /\ s.muteHold)

SignalModeNever(s) == FALSE

\* cueMode === 'signal'
SignalMode(s) == s.cueMode = "signal"

ScheduleCuesClearAfterSilentCheck(s, phaseKey, durationSec) ==
    IF Silent(s, phaseKey) THEN s
    ELSE LET s1 == ClearPreviousInterval(s)
             s2 == ResumeIfSuspended(s1)
             s3 == PlayCue(s2, phaseKey, TRUE)
             id == FreshId(s3.timers, s3.timeoutId)
         IN IF s3.thrown \/ SignalMode(s3) THEN s3
            ELSE [s3 EXCEPT
                    !.timers = @ \cup {IntervalRec(id, s3.now + 1, phaseKey, durationSec, 1)},
                    !.metronomeInterval = id,
                    !.out = Append(@, Call("setInterval", phaseKey, FALSE))]

\* scheduleCuesForPhase(phaseKey, durationSec)
ScheduleCuesForPhase(s, phaseKey, durationSec) ==
    LET s1 == ClearPreviousInterval(s)
    IN IF Silent(s1, phaseKey) THEN s1
       ELSE LET s2 == ResumeIfSuspended(s1)
                s3 == PlayCue(s2, phaseKey, TRUE)
                id == FreshId(s3.timers, s3.timeoutId)
            IN IF s3.thrown \/ SignalMode(s3) THEN s3
               ELSE [s3 EXCEPT
                       !.timers = @ \cup {IntervalRec(id, s3.now + 1, phaseKey, durationSec, 1)},
                       !.metronomeInterval = id,
                       !.out = Append(@, Call("setInterval", phaseKey, FALSE))]

PhaseNameLastExhale(idx, m) ==
    IF idx = 0 THEN "Inhale"
    ELSE IF idx = 1 THEN "Hold"
    ELSE "Exhale"
\* the phase name runPhase derives from the index and the mode
PhaseName(idx, m) ==
    IF idx = 0 THEN "Inhale"
    ELSE IF m = "three" THEN (IF idx = 1 THEN "Hold" ELSE "Exhale")
    ELSE IF idx = 1 THEN "Hold"
    ELSE IF idx = 2 THEN "Exhale"
    ELSE "Hold"

PhaseKey(phaseName) ==
    IF phaseName = "Inhale" THEN "inhale"
    ELSE IF phaseName = "Exhale" THEN "exhale"
    ELSE "hold"

\* durations[phaseIndex]
CurrentDuration(s) ==
    IF s.phaseIndex + 1 \in DOMAIN s.durations THEN s.durations[s.phaseIndex + 1]
    ELSE Undefined

\* the circle and the label after runPhase has updated them
RenderPhase(r, phaseName, currentDuration) ==
    IF phaseName = "Inhale"
    THEN [phaseText |-> phaseName, scale |-> SCALE_INHALE, pulse |-> FALSE,
          transitionMs |-> currentDuration * 1000]
    ELSE IF phaseName = "Exhale"
    THEN [phaseText |-> phaseName, scale |-> SCALE_EXHALE, pulse |-> FALSE,
          transitionMs |-> currentDuration * 1000]
    ELSE [phaseText |-> phaseName, scale |-> r.scale, pulse |-> TRUE,
          transitionMs |-> currentDuration * 1000]

BoundReachedLate(s) ==
    s.practiceDuration > 0 /\ s.now - s.sessionStart > s.practiceDuration

\* the session bound is reached: elapsed >= practiceDuration
BoundReached(s) ==
    s.practiceDuration > 0 /\ s.now - s.sessionStart >= s.practiceDuration

\* the phase timer runPhase arms; an undefined duration gives a delay of NaN,
\* which the host takes as 0
ArmPhaseTimer(s, currentDuration) ==
    LET id == FreshId(s.timers, s.metronomeInterval)
        delay == IF currentDuration = Undefined THEN 0 ELSE currentDuration
    IN [s EXCEPT !.timers = @ \cup {TimeoutRec(id, s.now + delay)},
                 !.timeoutId = id,
                 !.out = Append(@, Call("setTimeout", "", FALSE))]

RunPhaseCuesFirst(s) ==
    LET currentDuration == CurrentDuration(s)
        phaseName == PhaseName(s.phaseIndex, s.mode)
        phaseKey == PhaseKey(phaseName)
        entry == PhaseEntry(s, phaseName, phaseKey, currentDuration)
        s1 == [s EXCEPT !.cycleLog = IF s.phaseIndex = 0 THEN <<entry>>
                                     ELSE Append(@, entry)]
        s2 == ScheduleCuesForPhase(s1, phaseKey, currentDuration)
        s3 == [s2 EXCEPT !.render = RenderPhase(@, phaseName, currentDuration),
                         !.out = Append(@, Call("renderPhase", phaseKey, FALSE))]
    IN IF BoundReached(s) THEN StopBreathing(s)
       ELSE IF s2.thrown THEN s2
       ELSE ArmPhaseTimer(s3, currentDuration)
\* runPhase()
RunPhase(s) ==
    LET currentDuration == CurrentDuration(s)
        phaseName == PhaseName(s.phaseIndex, s.mode)
        phaseKey == PhaseKey(phaseName)
        entry == PhaseEntry(s, phaseName, phaseKey, currentDuration)
        s1 == [s EXCEPT !.render = RenderPhase(@, phaseName, currentDuration),
                        !.out = Append(@, Call("renderPhase", phaseKey, FALSE)),
                        !.cycleLog = IF s.phaseIndex = 0 THEN <<entry>>
                                     ELSE Append(@, entry)]
        s2 == ScheduleCuesForPhase(s1, phaseKey, currentDuration)
    IN IF BoundReached(s) THEN StopBreathing(s)
       ELSE IF s2.thrown THEN s2
       ELSE ArmPhaseTimer(s2, currentDuration)

StartBreathingUnguarded(s) ==
    RunPhase([s EXCEPT !.isRunning = TRUE, !.phaseIndex = 0,
                       !.sessionStart = s.now, !.cycleLog = <<>>])

\* startBreathing()
StartBreathing(s) ==
    IF s.isRunning THEN s
    ELSE RunPhase([s EXCEPT !.isRunning = TRUE, !.phaseIndex = 0,
                            !.sessionStart = s.now, !.cycleLog = <<>>])

\* closeModal()
CloseModal(s) ==
    IF s.isRunning THEN StartBreathing(StopBreathing(s))
    ELSE Emit(s, "updateRatioText")

PhaseTimerCallbackWrapAtEnd(s) ==
    RunPhase([s EXCEPT !.phaseIndex = IF s.phaseIndex + 1 = Len(s.durations) THEN 0
                                      ELSE s.phaseIndex + 1])

\* the callback of the phase timer
PhaseTimerCallback(s) ==
    RunPhase([s EXCEPT !.phaseIndex = (s.phaseIndex + 1) % Len(s.durations)])

BeatsExhaustedEarly(elapsedBeats, durationSec) == elapsedBeats >= durationSec

\* elapsedBeats > durationSec
BeatsExhausted(elapsedBeats, durationSec) == elapsedBeats > durationSec

MetronomeCallbackCueBeforeTest(s, t) ==
    LET elapsedBeats == t.elapsedBeats + 1
        s1 == IF ~(t.phaseKey = "hold" /\ s.muteHold)
              THEN PlayCue(s, t.phaseKey, FALSE)
              ELSE [s EXCEPT !.cycleLog = LogMutedTick(@)]
    IN IF s1.thrown \/ ~BeatsExhausted(elapsedBeats, t.durationSec) THEN s1
       ELSE [ClearTimer(s1, s1.metronomeInterval) EXCEPT !.metronomeInterval = Null]

\* the callback of the metronome interval t, which the host has re-armed
MetronomeCallback(s, t) ==
    LET elapsedBeats == t.elapsedBeats + 1
    IN IF BeatsExhausted(elapsedBeats, t.durationSec)
       THEN [ClearTimer(s, s.metronomeInterval) EXCEPT !.metronomeInterval = Null]
       ELSE IF ~(t.phaseKey = "hold" /\ s.muteHold)
       THEN PlayCue(s, t.phaseKey, FALSE)
       ELSE [s EXCEPT !.cycleLog = LogMutedTick(@)]

(***************************************************************************)
(* The settings handlers (src/sw.js:95-123, 335-408).                      *)
(***************************************************************************)
\* buildDurationInputs(): the durations of the mode's defaults
BuildDurationInputs(s) ==
    Emit([s EXCEPT !.durations = IF s.mode = "three" THEN DefaultThree ELSE DefaultFour],
         "updateRatioText")

TabClickAlwaysRebuild(s, m) == BuildDurationInputs([s EXCEPT !.mode = m])

\* the click handler of the tab of mode m
TabClick(s, m) ==
    IF s.mode # m THEN BuildDurationInputs([s EXCEPT !.mode = m]) ELSE s

ClampDurationNoUpper(txt) ==
    LET val == ParseInt(txt)
    IN IF val.nan \/ val.n < 1 THEN 1 ELSE val.n
\* the value the input handler of a duration field stores for the text typed
ClampDuration(txt) ==
    LET val == ParseInt(txt)
        v1 == IF val.nan \/ val.n < 1 THEN 1 ELSE val.n
    IN IF v1 > 30 THEN 30 ELSE v1

DurationInputHandlerRestarts(s, idx, txt) ==
    CloseModal(Emit([s EXCEPT !.durations[idx] = ClampDuration(txt)], "updateRatioText"))

\* the input handler of the duration field idx (1-based here)
DurationInputHandler(s, idx, txt) ==
    Emit([s EXCEPT !.durations[idx] = ClampDuration(txt)], "updateRatioText")

\* isNaN(minutes) ? 0 : minutes * 60
MinutesToSeconds(txt) ==
    LET minutes == ParseInt(txt)
    IN IF minutes.nan THEN 0 ELSE minutes.n * 60

\* the click handler of a practice duration button
PracticeClick(s, dataDuration) ==
    IF dataDuration = CustomText
    THEN [s EXCEPT !.practiceDuration = MinutesToSeconds(s.customDurationInput)]
    ELSE [s EXCEPT !.practiceDuration = ParseInt(dataDuration).n]

\* the input handler of the custom duration field
CustomDurationHandler(s, txt) ==
    [s EXCEPT !.customDurationInput = txt,
              !.practiceDuration = MinutesToSeconds(txt)]

SetVolumeUnclamped(s, vol) ==
    [s EXCEPT !.volume = vol,
              !.masterGain = IF @.exists THEN [@ EXCEPT !.gain = vol] ELSE @]
\* setVolume(vol): volume = Math.min(Math.max(vol, 0), 1), forwarded to the
\* master gain if there is one
SetVolume(s, vol) ==
    LET lower == IF vol > 0 THEN vol ELSE 0
        clamped == IF lower < 100 THEN lower ELSE 100
    IN [s EXCEPT !.volume = clamped,
                 !.masterGain = IF @.exists THEN [@ EXCEPT !.gain = clamped] ELSE @]
\* the input handler of the volume slider: parseInt(value, 10) / 100
VolumeHandler(s, txt) ==
    LET s1 == [s EXCEPT !.cueVolume = ParseInt(txt).n]
    IN Emit(SetVolume(s1, s1.cueVolume), "setVolume")
\* the click handler of the circle
CircleClick(s) ==
    LET s1 == ResumeIfSuspended(s)
    IN IF ~s1.isRunning THEN StartBreathing(s1) ELSE StopBreathing(s1)

(***************************************************************************)
(* Initial state: the closure has run to its end (src/sw.js:52-440).       *)
(* The page's markup is not part of the source; the circle and the label   *)
(* start at rest and the custom duration field empty.                      *)
(***************************************************************************)
Init ==
    /\ mode = "three"
    /\ durations = DefaultThree
    /\ practiceDuration = 0
    /\ isRunning = FALSE
    /\ phaseIndex = 0
    /\ timeoutId = Null
    /\ sessionStart = 0
    /\ cuesEnabled = TRUE
    /\ cueMode = "metronome"
    /\ cueVolume = 50
    /\ volume = 50
    /\ masterGain = NoGain
    /\ muteHold = FALSE
    /\ metronomeInterval = Null
    /\ customDurationInput = <<>>
    /\ render = [phaseText |-> "Start", scale |-> SCALE_EXHALE, pulse |-> FALSE,
                 transitionMs |-> 0]
    /\ now = 0
    /\ timers = {}
    /\ audioCtx = "null"
    /\ turn = "init"
    /\ out = <<>>
    /\ cycleLog = <<>>
    /\ gestures = 0
    /\ limits = [time |-> MaxTime, gestures |-> MaxGestures]

(***************************************************************************)
(* User events.                                                            *)
(***************************************************************************)
\* a user event whose handler takes state s to h
Gesture(name, h) ==
    /\ gestures < limits.gestures
    /\ gestures' = gestures + 1
    /\ turn' = name
    /\ Commit(h)

CircleTap == \E env \in AudioEnvs : Gesture("tap", CircleClick(CurIn(env)))

TabThree == Gesture("tabThree", TabClick(Cur, "three"))

TabFour == Gesture("tabFour", TabClick(Cur, "four"))

DurationInput ==
    \E idx \in DOMAIN durations, txt \in DurationTexts :
        Gesture("durationInput", DurationInputHandler(Cur, idx, txt))

PracticeButton ==
    \E b \in PracticeButtons : Gesture("practiceButton", PracticeClick(Cur, b))

CustomDurationInput ==
    \E txt \in MinuteTexts : Gesture("customDuration", CustomDurationHandler(Cur, txt))

CuesToggle == Gesture("cuesToggle", [Cur EXCEPT !.cuesEnabled = ~cuesEnabled])

CueModeButton ==
    \E m \in {"metronome", "signal"} : Gesture("cueMode", [Cur EXCEPT !.cueMode = m])

VolumeInput ==
    \E txt \in SliderTexts : Gesture("volume", VolumeHandler(Cur, txt))
MuteHoldChange == Gesture("muteHold", [Cur EXCEPT !.muteHold = ~muteHold])

\* the save button and the overlay both call closeModal()
ModalClose == \E env \in AudioEnvs : Gesture("closeModal", CloseModal(CurIn(env)))

(***************************************************************************)
(* The host: timers, the clock, the audio platform.                        *)
(***************************************************************************)
Due(t) == t.due <= now

\* the phase timer fires: the host drops it and runs its callback
PhaseTimerFires ==
    \E t \in PhaseTimers(timers), env \in AudioEnvs :
        /\ Due(t)
        /\ turn' = "phaseTimer"
        /\ Commit(PhaseTimerCallback([CurIn(env) EXCEPT !.timers = @ \ {t}]))
        /\ UNCHANGED gestures

\* the metronome interval fires: the host re-arms it one second later and
\* runs its callback, whose beat counter has gone up by one
MetronomeTick ==
    \E t \in MetronomeIntervals(timers), env \in AudioEnvs :
        /\ Due(t)
        /\ turn' = "tick"
        /\ LET rearmed == [t EXCEPT !.due = @ + 1, !.elapsedBeats = @ + 1]
           IN Commit(MetronomeCallback(
                  [CurIn(env) EXCEPT !.timers = (@ \ {t}) \cup {rearmed}], t))
        /\ UNCHANGED gestures

\* the earliest instant at which an armed timer is due
NextDue == CHOOSE d \in {t.due : t \in timers} : \A t \in timers : d <= t.due

\* nothing is due: the clock moves to the next instant at which a timer is
Advance ==
    /\ timers # {}
    /\ \A t \in timers : ~Due(t)
    /\ NextDue <= limits.time
    /\ now' = NextDue
    /\ turn' = "advance"
    /\ out' = <<>>
    /\ UNCHANGED <<mode, durations, practiceDuration, isRunning, phaseIndex,
                   timeoutId, sessionStart, cuesEnabled, cueMode, cueVolume,
                   muteHold, metronomeInterval, customDurationInput, volume,
                   masterGain, render, timers, audioCtx, cycleLog, gestures,
                   limits>>

Next ==
    \/ CircleTap
    \/ TabThree
    \/ TabFour
    \/ DurationInput
    \/ PracticeButton
    \/ CustomDurationInput
    \/ CuesToggle
    \/ CueModeButton
    \/ MuteHoldChange
    \/ ModalClose
    \/ PhaseTimerFires
    \/ MetronomeTick
    \/ Advance

Spec == Init /\ [][Next]_vars

(***************************************************************************)
(* Runs that reach the session bound: the 1 minute practice button has     *)
(* been clicked, and the mode and the cue mode chosen, before the clock    *)
(* starts; the clock runs past the bound.                                  *)
(***************************************************************************)
InitSession ==
    /\ mode \in {"three", "four"}
    /\ durations = (IF mode = "three" THEN DefaultThree ELSE DefaultFour)
    /\ practiceDuration = ParseInt(<<"6", "0">>).n
    /\ isRunning = FALSE
    /\ phaseIndex = 0
    /\ timeoutId = Null
    /\ sessionStart = 0
    /\ cuesEnabled = TRUE
    /\ cueMode \in {"metronome", "signal"}
    /\ cueVolume = 50
    /\ volume = 50
    /\ masterGain = NoGain
    /\ muteHold = FALSE
    /\ metronomeInterval = Null
    /\ customDurationInput = <<>>
    /\ render = [phaseText |-> "Start", scale |-> SCALE_EXHALE, pulse |-> FALSE,
                 transitionMs |-> 0]
    /\ now = 0
    /\ timers = {}
    /\ audioCtx = "null"
    /\ turn = "init"
    /\ out = <<>>
    /\ cycleLog = <<>>
    /\ gestures = 0
    /\ limits = [time |-> MaxSessionTime, gestures |-> MaxSessionGestures]

SpecSession == InitSession /\ [][Next]_vars

(***************************************************************************)
(* The same runs with a user who acts once and then leaves the program     *)
(* alone, and with the host doing its part: a timer that is due fires, and *)
(* the clock reaches the instant at which the next timer is due.           *)
(***************************************************************************)
InitAlone ==
    /\ mode \in {"three", "four"}
    /\ durations = (IF mode = "three" THEN DefaultThree ELSE DefaultFour)
    /\ practiceDuration = ParseInt(<<"6", "0">>).n
    /\ isRunning = FALSE
    /\ phaseIndex = 0
    /\ timeoutId = Null
    /\ sessionStart = 0
    /\ cuesEnabled = TRUE
    /\ cueMode \in {"metronome", "signal"}
    /\ cueVolume = 50
    /\ volume = 50
    /\ masterGain = NoGain
    /\ muteHold = FALSE
    /\ metronomeInterval = Null
    /\ customDurationInput = <<>>
    /\ render = [phaseText |-> "Start", scale |-> SCALE_EXHALE, pulse |-> FALSE,
                 transitionMs |-> 0]
    /\ now = 0
    /\ timers = {}
    /\ audioCtx = "null"
    /\ turn = "init"
    /\ out = <<>>
    /\ cycleLog = <<>>
    /\ gestures = 0
    /\ limits = [time |-> MaxSessionTime, gestures |-> MaxAloneGestures]

SpecAloneUnfair == InitAlone /\ [][Next]_vars

SpecAlone ==
    /\ SpecAloneUnfair
    /\ WF_vars(PhaseTimerFires)
    /\ WF_vars(MetronomeTick)
    /\ WF_vars(Advance)

(***************************************************************************)
(* Runs in which the session bound is set after it has passed: the four    *)
(* phase tab has been clicked and the session is unbounded before the      *)
(* clock starts.                                                           *)
(***************************************************************************)
InitLate ==
    /\ mode = "four"
    /\ durations = DefaultFour
    /\ practiceDuration = 0
    /\ isRunning = FALSE
    /\ phaseIndex = 0
    /\ timeoutId = Null
    /\ sessionStart = 0
    /\ cuesEnabled = TRUE
    /\ cueMode = "metronome"
    /\ cueVolume = 50
    /\ volume = 50
    /\ masterGain = NoGain
    /\ muteHold = FALSE
    /\ metronomeInterval = Null
    /\ customDurationInput = <<>>
    /\ render = [phaseText |-> "Start", scale |-> SCALE_EXHALE, pulse |-> FALSE,
                 transitionMs |-> 0]
    /\ now = 0
    /\ timers = {}
    /\ audioCtx = "null"
    /\ turn = "init"
    /\ out = <<>>
    /\ cycleLog = <<>>
    /\ gestures = 0
    /\ limits = [time |-> MaxLateTime, gestures |-> MaxLateGestures]

SpecLate == InitLate /\ [][Next]_vars

(***************************************************************************)
(* The settings panel and the circle while the clock stands still.         *)
(***************************************************************************)
InitSettings ==
    /\ mode = "three"
    /\ durations = DefaultThree
    /\ practiceDuration = 0
    /\ isRunning = FALSE
    /\ phaseIndex = 0
    /\ timeoutId = Null
    /\ sessionStart = 0
    /\ cuesEnabled = TRUE
    /\ cueMode = "metronome"
    /\ cueVolume = 50
    /\ volume = 50
    /\ masterGain = NoGain
    /\ muteHold = FALSE
    /\ metronomeInterval = Null
    /\ customDurationInput = <<>>
    /\ render = [phaseText |-> "Start", scale |-> SCALE_EXHALE, pulse |-> FALSE,
                 transitionMs |-> 0]
    /\ now = 0
    /\ timers = {}
    /\ audioCtx = "null"
    /\ turn = "init"
    /\ out = <<>>
    /\ cycleLog = <<>>
    /\ gestures = 0
    /\ limits = [time |-> 0, gestures |-> MaxSettingsGestures]

NextSettings ==
    \/ CircleTap
    \/ ModalClose
    \/ VolumeInput
    \/ CuesToggle
    \/ CueModeButton
    \/ MuteHoldChange

SpecSettings == InitSettings /\ [][NextSettings]_vars


(***************************************************************************)
(* The legacy variant (src/app.js): the same sequencer without the cue     *)
(* scheduler; runPhase calls the tones of the audio engine                 *)
(* (src/README.md:194-244) itself.  It is modelled on the same variables;  *)
(* those of the cue scheduler keep their initial values.  The labels       *)
(* written to the page are given here by their English names.  The sound   *)
(* buttons are left out, so the background sound stays 'none'.             *)
(***************************************************************************)
\* AudioEngine.init(): creates the context on first use
LegacyEngineInit(s) ==
    IF s.audioCtx # "null" THEN s
    ELSE IF s.backendFault THEN [s EXCEPT !.thrown = TRUE]
    ELSE [s EXCEPT !.audioCtx = "created"]

\* playTone(frequency, duration), called as the tone named name for a phase
\* of kind phase
PlayTone(s, name, phase) ==
    LET s1 == [s EXCEPT !.out = Append(@, Call(name, phase, FALSE)),
                        !.cycleLog = LogCue(@, phase, FALSE)]
        s2 == LegacyEngineInit(s1)
    IN IF s2.thrown THEN s2
       ELSE IF s2.backendFault THEN [s2 EXCEPT !.thrown = TRUE]
       ELSE s2

PlayInhale(s) == PlayTone(s, "playInhale", "inhale")
PlayExhale(s) == PlayTone(s, "playExhale", "exhale")

\* startBackground('none'): init(), stopBackground() with nothing to stop
StartBackgroundNone(s) == Emit(LegacyEngineInit(s), "startBackground")

\* stopBreathing() of the legacy variant
LegacyStopBreathing(s) ==
    LET s1 == [s EXCEPT !.isRunning = FALSE]
        s2 == [ClearTimer(s1, s1.timeoutId) EXCEPT !.timeoutId = Null]
    IN [s2 EXCEPT !.render = [phaseText |-> "Start", scale |-> SCALE_EXHALE,
                              pulse |-> FALSE, transitionMs |-> 300],
                  !.out = Append(@, Call("renderIdle", "", FALSE))]

\* the phase name the legacy runPhase derives from the index and the mode
LegacyPhaseName(idx, m) ==
    IF idx = 0 THEN "Inhale"
    ELSE IF m = "three" THEN (IF idx = 1 THEN "Hold" ELSE "Exhale")
    ELSE IF idx = 1 THEN "Hold"
    ELSE IF idx = 2 THEN "Exhale"
    ELSE "Hold"

LegacyRunPhaseTimerFirst(s) ==
    LET currentDuration == CurrentDuration(s)
        phaseName == LegacyPhaseName(s.phaseIndex, s.mode)
        phaseKey == PhaseKey(phaseName)
        entry == PhaseEntry(s, phaseName, phaseKey, currentDuration)
        s1 == [s EXCEPT !.render = RenderPhase(@, phaseName, currentDuration),
                        !.out = Append(@, Call("renderPhase", phaseKey, FALSE)),
                        !.cycleLog = IF s.phaseIndex = 0 THEN <<entry>>
                                     ELSE Append(@, entry)]
        s2 == ArmPhaseTimer(s1, currentDuration)
    IN IF BoundReached(s) THEN LegacyStopBreathing(s)
       ELSE IF phaseName = "Inhale" THEN PlayInhale(s2)
       ELSE IF phaseName = "Exhale" THEN PlayExhale(s2)
       ELSE s2

\* runPhase() of the legacy variant
LegacyRunPhase(s) ==
    LET currentDuration == CurrentDuration(s)
        phaseName == LegacyPhaseName(s.phaseIndex, s.mode)
        phaseKey == PhaseKey(phaseName)
        entry == PhaseEntry(s, phaseName, phaseKey, currentDuration)
        s1 == [s EXCEPT !.render = RenderPhase(@, phaseName, currentDuration),
                        !.out = Append(@, Call("renderPhase", phaseKey, FALSE)),
                        !.cycleLog = IF s.phaseIndex = 0 THEN <<entry>>
                                     ELSE Append(@, entry)]
        s2 == IF phaseName = "Inhale" THEN PlayInhale(s1)
              ELSE IF phaseName = "Exhale" THEN PlayExhale(s1)
              ELSE s1
    IN IF BoundReached(s) THEN LegacyStopBreathing(s)
       ELSE IF s2.thrown THEN s2
       ELSE ArmPhaseTimer(s2, currentDuration)

\* startBreathing() of the legacy variant
LegacyStartBreathing(s) ==
    IF s.isRunning THEN s
    ELSE LegacyRunPhase([s EXCEPT !.isRunning = TRUE, !.phaseIndex = 0,
                                  !.sessionStart = s.now, !.cycleLog = <<>>])

\* closeModal() of the legacy variant
LegacyCloseModal(s) ==
    LET s1 == StartBackgroundNone(s)
    IN IF s1.thrown THEN s1
       ELSE IF s1.isRunning THEN LegacyStartBreathing(LegacyStopBreathing(s1))
       ELSE Emit(s1, "updateRatioText")

\* the callback of the legacy phase timer
LegacyPhaseTimerCallback(s) ==
    LegacyRunPhase([s EXCEPT !.phaseIndex = (s.phaseIndex + 1) % Len(s.durations)])

\* the click handler of the circle in the legacy variant
LegacyCircleClick(s) ==
    LET s1 == ResumeIfSuspended(s)
    IN IF ~s1.isRunning THEN LegacyStartBreathing(s1) ELSE LegacyStopBreathing(s1)

LegacyCircleTap ==
    \E env \in AudioEnvs : Gesture("tap", LegacyCircleClick(CurIn(env)))

LegacyModalClose ==
    \E env \in AudioEnvs : Gesture("closeModal", LegacyCloseModal(CurIn(env)))

LegacyPhaseTimerFires ==
    \E t \in PhaseTimers(timers), env \in AudioEnvs :
        /\ Due(t)
        /\ turn' = "phaseTimer"
        /\ Commit(LegacyPhaseTimerCallback([CurIn(env) EXCEPT !.timers = @ \ {t}]))
        /\ UNCHANGED gestures

\* the legacy closure has run to its end; a mode tab has been clicked before
\* the clock starts
InitLegacy ==
    /\ mode \in {"three", "four"}
    /\ durations = (IF mode = "three" THEN DefaultThree ELSE DefaultFour)
    /\ practiceDuration = 0
    /\ isRunning = FALSE
    /\ phaseIndex = 0
    /\ timeoutId = Null
    /\ sessionStart = Null
    /\ cuesEnabled = TRUE
    /\ cueMode = "metronome"
    /\ cueVolume = 50
    /\ volume = 50
    /\ masterGain = NoGain
    /\ muteHold = FALSE
    /\ metronomeInterval = Null
    /\ customDurationInput = <<>>
    /\ render = [phaseText |-> "Start", scale |-> SCALE_EXHALE, pulse |-> FALSE,
                 transitionMs |-> 0]
    /\ now = 0
    /\ timers = {}
    /\ audioCtx = "null"
    /\ turn = "init"
    /\ out = <<>>
    /\ cycleLog = <<>>
    /\ gestures = 0
    /\ limits = [time |-> MaxLegacyTime, gestures |-> MaxLegacyGestures]

NextLegacy ==
    \/ LegacyCircleTap
    \/ LegacyModalClose
    \/ LegacyPhaseTimerFires
    \/ Advance

SpecLegacy == InitLegacy /\ [][NextLegacy]_vars

(***************************************************************************)
(* Vocabulary of the properties.                                           *)
(***************************************************************************)
\* the phase entered last
Entered == cycleLog[Len(cycleLog)]

\* a phase entry that is cued in Metronome mode, none of whose beats was muted
AudibleMetronome(e) ==
    e.cues /\ e.cueMode = "metronome" /\ ~e.muted /\ e.mutedTicks = 0

\* a phase entry that is cued in Signal mode
AudibleSignal(e) == e.cues /\ e.cueMode = "signal" /\ ~e.muted

\* the cue calls of phase entry e are one accented call and n - 1 unaccented
\* ones, all of the kind of the phase
AccentThenPlain(e, n) ==
    /\ Len(e.calls) = n
    /\ \A i \in 1..Len(e.calls) :
          e.calls[i].phase = e.key /\ (e.calls[i].accent <=> i = 1)

RECURSIVE TotalCalls(_)
\* the number of cue calls of the phase entries in log
TotalCalls(log) ==
    IF log = <<>> THEN 0 ELSE Len(Head(log).calls) + TotalCalls(Tail(log))

\* the calls named name that the last turn made
CallsNamed(name) == {i \in DOMAIN out : out[i].call = name}

\* the last turn entered a phase, notified the renderer of one or issued a cue
PhaseActivity == CallsNamed("renderPhase") \cup CallsNamed("playCue") # {}

(***************************************************************************)
(* C1.  In every reachable state, whatever the interleaving of circle      *)
(* taps, settings edits, modal closes, phase timer firings and metronome   *)
(* ticks, at most one phase timer and at most one metronome interval are   *)
(* armed.                                                                  *)
(***************************************************************************)
C1_NoOverlap ==
    /\ Cardinality(PhaseTimers(timers)) <= 1
    /\ Cardinality(MetronomeIntervals(timers)) <= 1

\* a later phase of a session has been entered by its timer, and both a phase
\* timer and a metronome interval are armed
C1_Witness ==
    /\ turn = "phaseTimer"
    /\ phaseIndex > 0
    /\ Cardinality(PhaseTimers(timers)) = 1
    /\ Cardinality(MetronomeIntervals(timers)) = 1

(***************************************************************************)
(* C2.  stopBreathing() can be called in every state; on return the        *)
(* running flag is false and no phase timer and no metronome interval is   *)
(* armed; and from a stop to the next start no turn enters a phase,        *)
(* notifies the renderer of a phase or issues a cue.                       *)
(***************************************************************************)
C2_StopCancelsAll ==
    LET s == StopBreathing(Cur)
    IN ~s.isRunning /\ s.timers = {} /\ s.timeoutId = Null /\ s.metronomeInterval = Null

C2_StoppedIsQuiet ==
    (~isRunning /\ ~isRunning') => (cycleLog' = cycleLog /\ ~PhaseActivity')

C2_Stop ==
    /\ [](C2_StopCancelsAll /\ (~isRunning => timers = {}))
    /\ [][C2_StoppedIsQuiet]_vars

\* a tap has stopped a session in the middle of a metronome phase
C2_Witness ==
    /\ turn = "tap"
    /\ ~isRunning
    /\ cycleLog # <<>>
    /\ Entered.cueMode = "metronome"
    /\ Len(Entered.calls) >= 2
    /\ now < Entered.at + Entered.dur

(***************************************************************************)
(* C3.  In Metronome mode with cues enabled, a phase of duration D that is *)
(* not muted and runs until its phase timer fires has produced exactly D   *)
(* cue calls by then: an accented one at the entry and D - 1 unaccented    *)
(* ones; no phase ever has more cue calls than its duration; and a cycle   *)
(* of durations 4, 7, 8 has produced 19 cue calls when it completes.       *)
(***************************************************************************)
C3_NeverMoreThanDuration ==
    \A i \in DOMAIN cycleLog : Len(cycleLog[i].calls) <= cycleLog[i].dur

C3_ExactAtCompletion ==
    (turn' = "phaseTimer" /\ cycleLog # <<>> /\ AudibleMetronome(Entered))
        => AccentThenPlain(Entered, Entered.dur)

C3_CycleTotal ==
    (/\ turn' = "phaseTimer"
     /\ [i \in DOMAIN cycleLog |-> cycleLog[i].dur] = <<4, 7, 8>>
     /\ \A i \in DOMAIN cycleLog : AudibleMetronome(cycleLog[i]))
        => TotalCalls(cycleLog) = 19

C3_MetronomeBeats ==
    /\ []C3_NeverMoreThanDuration
    /\ [][C3_ExactAtCompletion /\ C3_CycleTotal]_vars

\* the last second of a full 4-7-8 metronome cycle, with its 19 cue calls made
C3_Witness ==
    /\ isRunning
    /\ [i \in DOMAIN cycleLog |-> cycleLog[i].dur] = <<4, 7, 8>>
    /\ \A i \in DOMAIN cycleLog : AudibleMetronome(cycleLog[i])
    /\ now = Entered.at + Entered.dur
    /\ TotalCalls(cycleLog) = 19

(***************************************************************************)
(* C4.  With practiceDuration = T > 0, no phase is entered at an instant   *)
(* at which the time elapsed since the session start is >= T (the turn     *)
(* that finds the bound reached neither notifies the renderer of a phase   *)
(* nor issues a cue nor arms a timer), and the sequencer stops itself only *)
(* at an elapsed time >= T.                                                *)
(***************************************************************************)
C4_SessionBound ==
    /\ \A i \in DOMAIN cycleLog :
          cycleLog[i].bound > 0 => cycleLog[i].elapsed < cycleLog[i].bound
    /\ (turn = "phaseTimer" /\ practiceDuration > 0
           /\ now - sessionStart >= practiceDuration)
         => (~isRunning /\ timers = {} /\ ~PhaseActivity
               /\ CallsNamed("setTimeout") = {})
    /\ (turn = "phaseTimer" /\ ~isRunning)
         => (practiceDuration > 0 /\ now - sessionStart >= practiceDuration)

\* the sequencer has stopped itself at the first phase boundary past the bound
C4_Witness ==
    /\ turn = "phaseTimer"
    /\ ~isRunning
    /\ practiceDuration = 60
    /\ now - sessionStart >= 60


(***************************************************************************)
(* C5.  The configuration of a running session is the snapshot taken at    *)
(* its start: a settings edit made while the session runs (a duration, the *)
(* phase count mode, the cue mode, the cue toggle, hold muting, the total  *)
(* duration) changes nothing of what the session does next, that is, the   *)
(* phase its timer enters next, the duration and the cues of that phase,   *)
(* and whether the session ends there.                                     *)
(***************************************************************************)
SettingsEdits == {"tabThree", "tabFour", "durationInput", "practiceButton",
                  "customDuration", "cuesToggle", "cueMode", "muteHold"}

\* what the firing of the phase timer would do in the current state
NextPhaseEntry ==
    LET r == PhaseTimerCallback(Cur)
    IN [isRunning |-> r.isRunning, phaseIndex |-> r.phaseIndex,
        render |-> r.render, calls |-> r.out]

C5_SnapshotAtStart ==
    [][(isRunning /\ turn' \in SettingsEdits) => NextPhaseEntry' = NextPhaseEntry]_vars

(***************************************************************************)
(* C6.  A fault of the audio backend when a cue is issued does not halt    *)
(* the sequencer: after a turn in which playCue has thrown, at the phase   *)
(* entry or on a metronome tick, a running session still has its phase     *)
(* timer armed.                                                            *)
(***************************************************************************)
C6_FaultDoesNotHalt ==
    (isRunning /\ CallsNamed("throw") # {}) => PhaseTimers(timers) # {}

(***************************************************************************)
(* C7.  Each firing of the phase timer sets phaseIndex to                  *)
(* (phaseIndex + 1) mod durations.length, so that the phases entered are   *)
(* 0, 1, ..., length - 1, 0, 1, ...: the i-th phase entered since the last *)
(* entry of phase 0 is phase i.                                            *)
(***************************************************************************)
C7_AdvanceModulo ==
    turn' = "phaseTimer" => phaseIndex' = (phaseIndex + 1) % Len(durations)

C7_CyclicSequence ==
    /\ [](\A i \in DOMAIN cycleLog : cycleLog[i].index = i - 1)
    /\ [][C7_AdvanceModulo]_vars

(***************************************************************************)
(* C8.  In Signal mode with cues enabled, the entry of a phase that is not *)
(* muted produces exactly one cue call, which is accented, and arms no     *)
(* metronome interval, whatever the duration; a cycle of durations 4, 7, 8 *)
(* has exactly 3 cue calls.                                                *)
(***************************************************************************)
C8_SignalOneCue ==
    /\ \A i \in DOMAIN cycleLog :
          AudibleSignal(cycleLog[i]) => AccentThenPlain(cycleLog[i], 1)
    /\ (cycleLog # <<>> /\ AudibleSignal(Entered)) => MetronomeIntervals(timers) = {}
    /\ (/\ [i \in DOMAIN cycleLog |-> cycleLog[i].dur] = <<4, 7, 8>>
        /\ \A i \in DOMAIN cycleLog : AudibleSignal(cycleLog[i]))
         => TotalCalls(cycleLog) = 3

\* the last phase of a 4-7-8 cycle in Signal mode has been entered
C8_Witness ==
    /\ isRunning
    /\ [i \in DOMAIN cycleLog |-> cycleLog[i].dur] = <<4, 7, 8>>
    /\ \A i \in DOMAIN cycleLog : AudibleSignal(cycleLog[i])
    /\ TotalCalls(cycleLog) = 3
    /\ PhaseTimers(timers) # {}

(***************************************************************************)
(* C9.  With muteHold on, a Hold phase (index 1, and index 3 of a four     *)
(* phase cycle) produces no cue call in either mode: none at its entry, no *)
(* interval is armed for it, and no tick of a Hold phase issues a cue      *)
(* while muteHold is on.  Inhale and Exhale phases still get their cues.   *)
(***************************************************************************)
C9_HoldMuting ==
    /\ \A i \in DOMAIN cycleLog : cycleLog[i].muted => cycleLog[i].calls = <<>>
    /\ (cycleLog # <<>> /\ Entered.muted) => MetronomeIntervals(timers) = {}
    /\ (muteHold /\ turn \in {"tick", "phaseTimer", "tap", "closeModal"})
         => \A i \in CallsNamed("playCue") : out[i].phase # "hold"
    /\ \A i \in DOMAIN cycleLog :
          LET e == cycleLog[i]
          IN (e.muteHold /\ e.cues /\ e.key # "hold")
               => (e.calls # <<>> /\ e.calls[1] = [phase |-> e.key, accent |-> TRUE])

\* a four phase cycle 4-4-4-4 with muteHold on: cues for phases 0 and 2 only
C9_Witness ==
    /\ mode = "four"
    /\ [i \in DOMAIN cycleLog |-> cycleLog[i].index] = <<0, 1, 2, 3>>
    /\ \A i \in DOMAIN cycleLog :
          cycleLog[i].muteHold /\ cycleLog[i].cues /\ cycleLog[i].dur = 4
    /\ Len(cycleLog[1].calls) = 4 /\ Len(cycleLog[3].calls) = 4
    /\ cycleLog[2].calls = <<>> /\ cycleLog[4].calls = <<>>

(***************************************************************************)
(* C10.  startBreathing() on a running session changes nothing: the phase  *)
(* index, the session start, the armed timers and the cues are as they     *)
(* were, and no call is made; calling it twice is as calling it once.      *)
(* stopBreathing() on a session it has just stopped leaves the state as    *)
(* the first call left it.                                                 *)
(***************************************************************************)
\* the same state of the program and of the host, whatever calls led to it
SameState(a, b) ==
    [a EXCEPT !.out = <<>>, !.thrown = FALSE] = [b EXCEPT !.out = <<>>, !.thrown = FALSE]

C10_Idempotent ==
    \A env \in AudioEnvs :
        LET s == CurIn(env)
            once == StartBreathing(s)
            twice == StartBreathing([once EXCEPT !.thrown = FALSE])
            stopped == StopBreathing(s)
        IN /\ isRunning => once = s
           /\ SameState(twice, once)
           /\ SameState(StopBreathing(stopped), stopped)

\* a session in a later phase, some time after its start, with both timers armed
C10_Witness ==
    /\ isRunning
    /\ phaseIndex > 0
    /\ now > sessionStart
    /\ PhaseTimers(timers) # {}
    /\ MetronomeIntervals(timers) # {}
    /\ Len(Entered.calls) >= 2


(***************************************************************************)
(* C11.  The steps of a phase entry happen in one turn and in a fixed      *)
(* order: the renderer is notified of the phase, then the cues of the      *)
(* phase are scheduled (resume request, accented cue, metronome interval), *)
(* then the timer of the next phase is armed.  A turn enters at most one   *)
(* phase, and an entry cue, an interval or a phase timer is never issued   *)
(* in a turn that has not notified the renderer before.                    *)
(***************************************************************************)
\* the calls by which a turn schedules the cues of a phase
CueScheduling == CallsNamed("playCue") \cup CallsNamed("setInterval")

C11_EntryOrder ==
    /\ \A r \in CallsNamed("renderPhase") :
          /\ CallsNamed("renderPhase") = {r}
          /\ turn \in {"tap", "closeModal", "phaseTimer"}
          /\ cycleLog # <<>> /\ Entered.at = now /\ Entered.key = out[r].phase
          /\ \A c \in CueScheduling : r < c
          /\ \A i \in (r + 1)..Len(out) :
                out[i].call \in {"resume", "playCue", "setInterval", "setTimeout", "throw"}
    /\ \A t \in CallsNamed("setTimeout") :
          /\ t = Len(out)
          /\ CallsNamed("renderPhase") # {}
          /\ \A c \in CueScheduling : c < t
    /\ \A c \in CueScheduling :
          (out[c].call = "setInterval" \/ out[c].accent) => CallsNamed("renderPhase") # {}

\* the phase timer has entered a phase with all three steps: render, accented
\* cue and interval, phase timer
C11_Witness ==
    /\ turn = "phaseTimer"
    /\ Len(out) = 4
    /\ [i \in 1..4 |-> out[i].call] = <<"renderPhase", "playCue", "setInterval", "setTimeout">>


(***************************************************************************)
(* C12.  startBreathing() on a stopped session, at a first start and at    *)
(* every later one, sets the running flag, resets phaseIndex to 0, records *)
(* the session start as now and enters the Inhale phase in the same turn:  *)
(* when the turn ends the Inhale phase is rendered and the phase timer is  *)
(* armed for the Inhale duration.                                          *)
(***************************************************************************)
\* the last turn has started a session: a tap on a stopped session, or the
\* restart of closeModal
Started == turn \in {"tap", "closeModal"} /\ isRunning

C12_StartEntersInhale ==
    Started =>
        /\ phaseIndex = 0
        /\ sessionStart = now
        /\ CallsNamed("renderPhase") # {}
        /\ render.phaseText = "Inhale"
        /\ render.scale = SCALE_INHALE
        /\ render.transitionMs = durations[1] * 1000
        /\ cycleLog # <<>> /\ Entered.nth = 1 /\ Entered.key = "inhale"
        /\ \E t \in PhaseTimers(timers) :
              /\ PhaseTimers(timers) = {t}
              /\ t.id = timeoutId
              /\ t.due = now + durations[1]

(***************************************************************************)
(* C13.  closeModal() on a running session stops it and starts it again:   *)
(* afterwards the session runs at phase index 0 with the session start at  *)
(* now, exactly one phase timer is armed and no metronome interval of the  *)
(* old session is left.  closeModal() on a stopped session leaves it       *)
(* stopped with no timer armed.                                            *)
(***************************************************************************)
C13_CommitRestarts ==
    /\ (turn = "closeModal" /\ isRunning) =>
          /\ out # <<>> /\ out[1].call = "renderIdle"
          /\ phaseIndex = 0
          /\ sessionStart = now
          /\ Cardinality(PhaseTimers(timers)) = 1
          /\ \A t \in MetronomeIntervals(timers) :
                t.id = metronomeInterval /\ t.due = now + 1 /\ t.elapsedBeats = 1
    /\ (turn = "closeModal" /\ ~isRunning) => timers = {}

(***************************************************************************)
(* C14.  The phase kind given to the renderer and to the cue scheduler     *)
(* depends on the index and on the length of the cycle only: index 0 is    *)
(* Inhale; with three phases index 1 is Hold and index 2 Exhale; with four *)
(* phases index 1 is Hold, index 2 Exhale and index 3 Hold.                *)
(***************************************************************************)
KindOf(index, length) ==
    CASE index = 0 -> "inhale"
      [] index = 1 -> "hold"
      [] index = 2 -> "exhale"
      [] index = 3 /\ length = 4 -> "hold"
      [] OTHER -> "none"

C14_PhaseKinds ==
    \A r \in CallsNamed("renderPhase") :
        /\ out[r].phase = KindOf(phaseIndex, Len(durations))
        /\ Entered.index = phaseIndex
        /\ Entered.key = out[r].phase
        /\ render.phaseText = (CASE out[r].phase = "inhale" -> "Inhale"
                                 [] out[r].phase = "hold" -> "Hold"
                                 [] OTHER -> "Exhale")
        /\ \A c \in CallsNamed("playCue") : out[c].phase = out[r].phase
        /\ \A t \in MetronomeIntervals(timers) : t.phaseKey = out[r].phase

\* the second hold of a four phase cycle has been entered, with its cues
C14_Witness ==
    /\ turn = "phaseTimer"
    /\ Len(durations) = 4
    /\ phaseIndex = 3
    /\ \E r \in CallsNamed("renderPhase") : out[r].phase = "hold"
    /\ \E c \in CallsNamed("playCue") : out[c].phase = "hold"


(***************************************************************************)
(* C15.  After any sequence of tab clicks and duration inputs (non-numeric *)
(* texts, values below 1 and above 30 included) durations has exactly 3    *)
(* elements in mode three and exactly 4 in mode four, and every duration   *)
(* is an integer from 1 to 30.                                             *)
(***************************************************************************)
C15_CycleShape ==
    /\ mode \in {"three", "four"}
    /\ DOMAIN durations = 1..(IF mode = "three" THEN 3 ELSE 4)
    /\ \A i \in DOMAIN durations : durations[i] \in 1..30

\* in mode four, a text above 30 has been typed into the last field after a
\* text below 1 or not a number into the first
C15_Witness ==
    /\ turn = "durationInput"
    /\ mode = "four"
    /\ durations = <<1, 4, 4, 30>>

(***************************************************************************)
(* C16.  setVolume(v) stores min(max(v, 0), 1): after any sequence of      *)
(* volume inputs the volume of the engine lies in [0, 1] (0..100 in        *)
(* hundredths) and is the clamped value of the last input, and the master  *)
(* gain, once the audio context exists, has that value.                    *)
(***************************************************************************)
C16_VolumeClamped ==
    /\ volume \in 0..100
    /\ volume = (IF cueVolume < 0 THEN 0 ELSE IF cueVolume > 100 THEN 100 ELSE cueVolume)
    /\ masterGain.exists <=> audioCtx = "created"
    /\ masterGain.exists => masterGain.gain = volume

\* with the audio context created, the slider has given 150 percent
C16_Witness ==
    /\ turn = "volume"
    /\ audioCtx = "created"
    /\ cueVolume = 150
    /\ volume = 100
    /\ masterGain = [exists |-> TRUE, gain |-> 100]


(***************************************************************************)
(* C17.  Before every cue call, at a phase entry and on every metronome    *)
(* tick, the scheduler looks at the audio context and requests a resume if *)
(* it is suspended: whichever turn runs next, if it finds the existing     *)
(* context suspended, every cue call it makes comes after a resume request *)
(* of the same turn.                                                       *)
(***************************************************************************)
\* every cue call in the calls of one turn has a resume request before it
ResumePrecedesCues(calls) ==
    \A i \in DOMAIN calls :
        calls[i].call = "playCue" => \E j \in 1..(i - 1) : calls[j].call = "resume"

\* the calls of the turns that enter a phase, run in the current state
EntryTurns(env) ==
    {CircleClick(CurIn(env)).out, CloseModal(CurIn(env)).out}
      \cup {PhaseTimerCallback([CurIn(env) EXCEPT !.timers = @ \ {t}]).out :
               t \in PhaseTimers(timers)}

\* the calls of the metronome ticks that can run in the current state
TickTurns(env) ==
    {MetronomeCallback([CurIn(env) EXCEPT !.timers = (@ \ {t}) \cup
                           {[t EXCEPT !.due = @ + 1, !.elapsedBeats = @ + 1]}], t).out :
        t \in MetronomeIntervals(timers)}

C17_ResumeAtEntry ==
    \A env \in AudioEnvs :
        (env.suspended /\ audioCtx # "null")
            => \A calls \in EntryTurns(env) : ResumePrecedesCues(calls)

C17_ResumeBeforeCue ==
    \A env \in AudioEnvs :
        (env.suspended /\ audioCtx # "null")
            => \A calls \in EntryTurns(env) \cup TickTurns(env) : ResumePrecedesCues(calls)

(***************************************************************************)
(* C18.  After any sequence of clicks on the practice duration buttons and *)
(* inputs into the custom duration field (texts that are not numbers, zero *)
(* and negative minutes included) practiceDuration is an integer >= 0.     *)
(***************************************************************************)
C18_TotalDurationNatural == practiceDuration \in Nat


(***************************************************************************)
(* C19.  The session bound T is tested at phase boundaries only: a phase   *)
(* entered before T runs to its end, so the sequencer stops itself at the  *)
(* end of a phase and at an elapsed time in [T, T + duration of that       *)
(* phase).  With T = 60 and the cycle 4-7-8 the session runs 9 phases      *)
(* (57 s), enters a 10th phase, an Inhale, and stops at 61 s.              *)
(***************************************************************************)
\* the last turn is the phase timer's, and it has stopped the session
SelfStopped == turn = "phaseTimer" /\ ~isRunning

C19_BoundAtBoundaries ==
    SelfStopped =>
        /\ practiceDuration > 0
        /\ now = Entered.at + Entered.dur
        /\ now - sessionStart >= practiceDuration
        /\ now - sessionStart < practiceDuration + Entered.dur


(***************************************************************************)
(* C20.  Every stop, by a tap, by the restart of closeModal or by the      *)
(* session bound, puts the renderer into its baseline: the scale is the    *)
(* exhale scale, the pulse is off and the label is the idle label; and the *)
(* renderer stays so for as long as the session is stopped.                *)
(***************************************************************************)
Baseline ==
    render.scale = SCALE_EXHALE /\ ~render.pulse /\ render.phaseText = "Start"

C20_BaselineOnStop ==
    /\ ~isRunning => Baseline
    /\ (turn \in {"tap", "phaseTimer"} /\ ~isRunning)
         => (out[Len(out)].call = "renderIdle" /\ render.transitionMs = 300)
    /\ (turn = "closeModal" /\ isRunning) => out[1].call = "renderIdle"

\* a tap has stopped the session during a hold at the inhale scale
C20_Witness ==
    /\ turn = "tap"
    /\ ~isRunning
    /\ cycleLog # <<>>
    /\ Entered.key = "hold"
    /\ Entered.index = 1
    /\ Baseline

(***************************************************************************)
(* C21.  Every phase entry, silent or in Signal mode included, cancels the *)
(* metronome interval of the previous phase first: an armed interval is    *)
(* the one the active phase armed at its entry, for its kind and its       *)
(* duration; every cue call, of an entry or of a tick, carries the kind of *)
(* the active phase; an entry that is silent or in Signal mode leaves no   *)
(* interval armed.                                                         *)
(***************************************************************************)
C21_EntryCancelsPrevious ==
    /\ \A t \in MetronomeIntervals(timers) :
          /\ cycleLog # <<>>
          /\ t.id = metronomeInterval
          /\ t.phaseKey = Entered.key
          /\ t.durationSec = Entered.dur
          /\ t.due - t.elapsedBeats = Entered.at
    /\ \A i \in DOMAIN cycleLog :
          \A j \in DOMAIN cycleLog[i].calls :
              cycleLog[i].calls[j].phase = cycleLog[i].key
    /\ \A i \in CallsNamed("playCue") :
          cycleLog # <<>> /\ out[i].phase = Entered.key
    /\ (CallsNamed("renderPhase") # {}
           /\ (~Entered.cues \/ Entered.muted \/ Entered.cueMode = "signal"))
          => MetronomeIntervals(timers) = {} /\ metronomeInterval = Null

\* the phase timer has fired into a muted hold after an inhale whose four
\* beats had all sounded: no interval is left
C21_Witness ==
    /\ turn = "phaseTimer"
    /\ Len(cycleLog) = 2
    /\ Entered.muted
    /\ Len(cycleLog[1].calls) = 4
    /\ CallsNamed("renderPhase") # {}
    /\ MetronomeIntervals(timers) = {}

(***************************************************************************)
(* C22.  At second D of a Metronome phase of duration D the D-th tick and  *)
(* the phase timer are due together.  If the tick fires first it issues no *)
(* cue and cancels its own interval, so that the entry that follows finds  *)
(* none to cancel; if the phase timer fires first the entry cancels the    *)
(* interval and the tick never runs.  Either way the phase has had D       *)
(* beats, and a tick cancels only an interval that has had all its beats,  *)
(* never one that an entry has just armed.                                 *)
(***************************************************************************)
\* the last tick of the armed interval is due
LastTickDue ==
    \E t \in MetronomeIntervals(timers) : Due(t) /\ t.elapsedBeats = t.durationSec

\* the last tick of an interval and the phase timer are due at one instant
C22_BothDue ==
    \A t \in MetronomeIntervals(timers) :
        /\ t.elapsedBeats <= t.durationSec
        /\ \E p \in PhaseTimers(timers) :
              p.due = t.due + (t.durationSec - t.elapsedBeats)
        /\ (Due(t) /\ t.elapsedBeats = t.durationSec) =>
              /\ now = Entered.at + Entered.dur
              /\ Len(Entered.calls) + Entered.mutedTicks = Entered.dur

C22_TickFirst ==
    [][(LastTickDue /\ turn' = "tick") =>
          /\ out' = <<>>
          /\ cycleLog' = cycleLog
          /\ MetronomeIntervals(timers') = {}
          /\ metronomeInterval' = Null
          /\ PhaseTimers(timers') = PhaseTimers(timers)]_vars

C22_TimerFirst ==
    [][(LastTickDue /\ turn' = "phaseTimer") =>
          /\ MetronomeIntervals(timers') \cap MetronomeIntervals(timers) = {}
          /\ \A t \in MetronomeIntervals(timers') :
                t.elapsedBeats = 1 /\ t.due = now + 1 /\ t.id = metronomeInterval'
          /\ (\E i \in DOMAIN out' : out'[i].call = "setInterval")
                => MetronomeIntervals(timers') # {}]_vars

\* a tick that leaves no interval armed has cancelled one whose beats were up
C22_CancelsOnlyExhausted ==
    [][(turn' = "tick" /\ MetronomeIntervals(timers') = {}) =>
          \A t \in MetronomeIntervals(timers) :
              Due(t) /\ t.elapsedBeats = t.durationSec]_vars

C22_TieAtPhaseEnd ==
    /\ []C22_BothDue
    /\ C22_TickFirst
    /\ C22_TimerFirst
    /\ C22_CancelsOnlyExhausted

\* second 4 of an inhale of 4 s whose four beats have sounded: the last tick
\* and the phase timer are both due
C22_Witness ==
    /\ LastTickDue
    /\ \E p \in PhaseTimers(timers) : Due(p)
    /\ Entered.key = "inhale"
    /\ Entered.dur = 4
    /\ AccentThenPlain(Entered, 4)

(***************************************************************************)
(* C23.  A session started with a session bound T > 0 and left alone       *)
(* eventually stops; with T = 0 the sequencer never stops itself.  "Left   *)
(* alone" is stated by letting the session stop or the user act again.     *)
(***************************************************************************)
\* the circle has just been tapped and has started a session bounded by 60 s
\* with the durations of the mode's defaults, after g user events
StartedBounded(g) ==
    /\ turn = "tap"
    /\ isRunning
    /\ practiceDuration = 60
    /\ sessionStart = 0
    /\ durations \in {DefaultThree, DefaultFour}
    /\ gestures = g

C23_EventuallyStops ==
    \A g \in 1..MaxAloneGestures :
        StartedBounded(g) ~> (~isRunning \/ gestures > g)

\* the fairness of SpecAlone with the enabling conditions of the three
\* actions written out: a callback is enabled when its timer is due, the clock
\* when timers are armed, none is due and the next due instant is in range
HostFairness ==
    /\ \/ []<>(~\E t \in PhaseTimers(timers) : Due(t))
       \/ []<><<turn' = "phaseTimer">>_vars
    /\ \/ []<>(~\E t \in MetronomeIntervals(timers) : Due(t))
       \/ []<><<turn' = "tick">>_vars
    /\ \/ []<>(~(timers # {} /\ (\A t \in timers : ~Due(t))
                  /\ NextDue <= limits.time))
       \/ []<><<turn' = "advance">>_vars

\* under that fairness a bounded session that is left alone stops, as long as
\* every phase entry has armed its phase timer (stated for SpecAloneUnfair)
C23_StopsUnlessHalted ==
    HostFairness =>
        \A g \in 1..MaxAloneGestures :
            StartedBounded(g)
                ~> (~isRunning \/ gestures > g \/ PhaseTimers(timers) = {})

\* only a bounded session stops itself
C23_UnboundedNeverStopsItself ==
    [][(turn' = "phaseTimer" /\ isRunning /\ ~isRunning') => practiceDuration > 0]_vars

(***************************************************************************)
(* C24.  A phase entered with cues disabled has no cue call, at its entry  *)
(* or later, and no metronome interval, whatever the mode and the cue      *)
(* mode; and what the start, the stop and the phase timer callback do to   *)
(* the sequencer with cues disabled (the phase entered, the notifications  *)
(* to the renderer, the phase timer and its due time, the running flag,    *)
(* the session start) is what they do with cues enabled.                   *)
(***************************************************************************)
\* a call to the renderer or the arming of the phase timer
IsSequencing(c) == c.call \in {"renderPhase", "renderIdle", "setTimeout"}

\* what handler result s holds of the sequencer, cues apart
Sequencing(s) ==
    [render |-> s.render, isRunning |-> s.isRunning, phaseIndex |-> s.phaseIndex,
     sessionStart |-> s.sessionStart,
     phaseTimerDue |-> {t.due : t \in PhaseTimers(s.timers)},
     calls |-> SelectSeq(s.out, IsSequencing),
     thrown |-> s.thrown]

C24_SilentPhase ==
    (cycleLog # <<>> /\ ~Entered.cues) =>
        /\ Entered.calls = <<>>
        /\ Entered.mutedTicks = 0
        /\ MetronomeIntervals(timers) = {}
        /\ metronomeInterval = Null
        /\ CallsNamed("renderPhase") # {} => CueScheduling = {}

C24_SameSequencing ==
    LET quiet == [Cur EXCEPT !.cuesEnabled = FALSE]
        cued == [Cur EXCEPT !.cuesEnabled = TRUE]
    IN /\ Sequencing(CircleClick(quiet)) = Sequencing(CircleClick(cued))
       /\ \A t \in PhaseTimers(timers) :
             Sequencing(PhaseTimerCallback([quiet EXCEPT !.timers = @ \ {t}]))
                = Sequencing(PhaseTimerCallback([cued EXCEPT !.timers = @ \ {t}]))

C25_RunningIffTimer ==
    /\ isRunning <=> Cardinality(PhaseTimers(timers)) = 1
    /\ MetronomeIntervals(timers) # {} => isRunning

\* what is left of it: a stopped session has no timer, a running one at most
\* one phase timer, and an interval is armed only next to a phase timer
C25_TimersOnlyWhileRunning ==
    /\ ~isRunning => timers = {}
    /\ Cardinality(PhaseTimers(timers)) <= 1
    /\ MetronomeIntervals(timers) # {} => isRunning /\ PhaseTimers(timers) # {}
    /\ (isRunning /\ PhaseTimers(timers) = {}) =>
          /\ cycleLog # <<>>
          /\ Entered.calls # <<>>
          /\ Entered.calls[Len(Entered.calls)].accent

(***************************************************************************)
(* C26.  At every phase entry the phase index lies within the durations as *)
(* they are then: the duration read is an integer from 1 to 30 and the     *)
(* phase timer is armed with it, also at the entry that follows a switch   *)
(* from four phases to three made while the session was at index 3.        *)
(***************************************************************************)
C26_IndexInBounds ==
    /\ \A i \in DOMAIN cycleLog :
          /\ cycleLog[i].dur \in 1..30
          /\ cycleLog[i].index \in 0..3
    /\ CallsNamed("renderPhase") # {} =>
          /\ phaseIndex + 1 \in DOMAIN durations
          /\ Entered.index = phaseIndex
          /\ Entered.dur = durations[phaseIndex + 1]
          /\ \A t \in PhaseTimers(timers) : t.due = now + Entered.dur

\* the phase timer of the phase of index 3 has fired after the switch to three
\* phases: the phase of index 1 is entered with the hold duration of 7 s
C26_Witness ==
    /\ turn = "phaseTimer"
    /\ mode = "three"
    /\ Len(cycleLog) >= 2
    /\ cycleLog[Len(cycleLog) - 1].index = 3
    /\ Entered.index = 1
    /\ Entered.dur = 7
    /\ PhaseTimers(timers) # {}

(***************************************************************************)
(* C27.  A click on the tab of the active mode leaves the mode and the     *)
(* durations as they are; a click on the other tab sets the mode and puts  *)
(* the durations back to the defaults of the new mode, 4-7-8 for three     *)
(* phases and 4-4-4-4 for four, whatever they had been edited to.          *)
(***************************************************************************)
C27_TabClick ==
    [][/\ turn' = "tabThree" =>
            IF mode = "three" THEN mode' = mode /\ durations' = durations
            ELSE mode' = "three" /\ durations' = <<4, 7, 8>>
       /\ turn' = "tabFour" =>
            IF mode = "four" THEN mode' = mode /\ durations' = durations
            ELSE mode' = "four" /\ durations' = <<4, 4, 4, 4>>]_vars

\* after three user events the last of which is a click on the three phase
\* tab, the durations are the defaults of three phases
C27_Witness ==
    /\ turn = "tabThree"
    /\ gestures = 3
    /\ mode = "three"
    /\ durations = <<4, 7, 8>>
    /\ CallsNamed("updateRatioText") # {}

(***************************************************************************)
(* C28.  The settings handlers (duration input, mode tabs, practice        *)
(* duration, cue toggle, cue mode, hold mute, volume) leave the running    *)
(* flag, the phase index, the session start, the phase timer and the       *)
(* metronome interval as they are; these change only in the turn of a      *)
(* circle tap, of a modal close or of a timer that fires.                  *)
(***************************************************************************)
\* the sequencer's part of state s
SequencerOf(s) ==
    <<s.isRunning, s.phaseIndex, s.sessionStart, s.timeoutId, s.metronomeInterval,
      s.timers>>

\* the volume handler, run in the present state with any slider value,
\* returns with the sequencer's part as it was
C28_VolumeKeepsSequencer ==
    \A txt \in SliderTexts :
        LET h == VolumeHandler(Cur, txt)
        IN SequencerOf(h) = SequencerOf(Cur) /\ ~h.thrown

C28_EditsKeepSequencer ==
    [][turn' \in SettingsEdits \cup {"volume"} =>
          UNCHANGED <<isRunning, phaseIndex, sessionStart, timeoutId,
                      metronomeInterval, timers>>]_vars

C28_OnlyTapCloseOrTimer ==
    [][<<isRunning, phaseIndex, sessionStart, timeoutId, metronomeInterval, timers>>'
          # <<isRunning, phaseIndex, sessionStart, timeoutId, metronomeInterval, timers>>
        => turn' \in {"tap", "closeModal", "phaseTimer", "tick"}]_vars

C28_SettingsFrame ==
    /\ []C28_VolumeKeepsSequencer
    /\ C28_EditsKeepSequencer
    /\ C28_OnlyTapCloseOrTimer

\* a duration has been edited during the hold of a running session, with the
\* phase timer and the metronome interval armed
C28_Witness ==
    /\ turn = "durationInput"
    /\ isRunning
    /\ phaseIndex = 1
    /\ now > sessionStart
    /\ durations # DefaultThree
    /\ PhaseTimers(timers) # {}
    /\ MetronomeIntervals(timers) # {}

(***************************************************************************)
(* C29.  In the legacy variant each entry into an Inhale phase makes one   *)
(* playInhale call, each entry into an Exhale phase one playExhale call,   *)
(* an entry into a Hold phase makes no audio call; the tone comes after    *)
(* the notification of the phase and before the phase timer is armed, and  *)
(* no other turn makes a tone.                                             *)
(***************************************************************************)
LegacyTones == CallsNamed("playInhale") \cup CallsNamed("playExhale")

C29_LegacyTones ==
    /\ CallsNamed("renderPhase") = {} => LegacyTones = {}
    /\ CallsNamed("renderPhase") # {} =>
          /\ Cardinality(CallsNamed("renderPhase")) = 1
          /\ Cardinality(CallsNamed("playInhale")) =
                (IF Entered.name = "Inhale" THEN 1 ELSE 0)
          /\ Cardinality(CallsNamed("playExhale")) =
                (IF Entered.name = "Exhale" THEN 1 ELSE 0)
          /\ \A a \in LegacyTones :
                /\ out[a].phase = Entered.key
                /\ \A r \in CallsNamed("renderPhase") : r < a
                /\ \A t \in CallsNamed("setTimeout") : a < t
    /\ \A i \in DOMAIN cycleLog :
          /\ Len(cycleLog[i].calls) = (IF cycleLog[i].name = "Hold" THEN 0 ELSE 1)
          /\ \A j \in DOMAIN cycleLog[i].calls :
                cycleLog[i].calls[j].phase = cycleLog[i].key

\* the legacy phase timer has fired into the exhale of a four phase cycle:
\* the phase is notified, playExhale is called, then the timer is armed
C29_Witness ==
    /\ turn = "phaseTimer"
    /\ mode = "four"
    /\ Len(cycleLog) = 3
    /\ Entered.name = "Exhale"
    /\ cycleLog[2].name = "Hold" /\ cycleLog[2].calls = <<>>
    /\ [i \in DOMAIN out |-> out[i].call] = <<"renderPhase", "playExhale", "setTimeout">>

=============================================================================
